---- MODULE Spec2Model ----
(***************************************************************************)
(* Fractional Brownian motion (stochastic/continuous/                      *)
(* fractional_brownian_motion.py): construction of process objects and     *)
(* the sampling of paths, as a state machine over a small heap of objects. *)
(*                                                                         *)
(* Numbers.  Path and increment values are exact numbers on the integer    *)
(* grid; float64 rounding is not modelled.  hurst is held in units of      *)
(* 1/HurstDen (the value h stands for H = h/HurstDen), t in whole units.   *)
(* The kernel's values, which are irrational for most H, are held exactly  *)
(* as linear forms over the powers b^(2H) (see LinZero).                   *)
(*                                                                         *)
(* Randomness.  The input `draw` of a sampling call is the realisation the *)
(* random source delivers for that call, already in increment space: the   *)
(* real-valued linear map from N(0,1) inputs to correlated increments is   *)
(* identified with its outcome.                                            *)
(*                                                                         *)
(* The parent class FractionalGaussianNoise is not part of the source set; *)
(* its constructor, its increment sampler, the kernel and the circulant    *)
(* row are written from the specification text.                            *)
(***************************************************************************)
EXTENDS Integers, Sequences, FiniteSets

\* Largest increment count n a call asks for.
MaxN == 2
\* Largest interval endpoint t passed to the constructor.
MaxT == 2
\* Half the denominator of the hurst grid: H = 1/2 is hurst = HalfDen.
HalfDen == 2

HurstDen == 2 * HalfDen

\* The object slots of the heap, the values one increment can take, and the
\* arguments callers pass (valid and invalid ones).
Slots == {1, 2}
Draws == {-1, 1}
NArgs == -1 .. MaxN
TArgs == -1 .. MaxT
\* H = 0, 1/HurstDen, 1/2, 1 - 1/HurstDen, 1 and 3/2.
HurstArgs == {0, 1, HalfDen, HurstDen - 1, HurstDen, 3 * HalfDen}

VARIABLES
    objs,   \* objs[i]: outcome of the i-th constructor call
    last    \* last[i]: <<>> or <<record of the latest sample call on object i>>

vars == <<objs, last>>

Abs(x) == IF x < 0 THEN -x ELSE x

-----------------------------------------------------------------------------
(* Exact reals of the kernel.  A linear form v stands for the real         *)
(*     ( v.unit + SUM_{b in Bases} v.pow[b] * b^(2H) ) / 2 .               *)
(* Equal forms are equal reals.                                            *)

Bases == 2 .. (MaxN + 1)

LinZero == [unit |-> 0, pow |-> [b \in Bases |-> 0]]

LinOne == [unit |-> 2, pow |-> [b \in Bases |-> 0]]

LinAdd(x, y) ==
    [unit |-> x.unit + y.unit, pow |-> [b \in Bases |-> x.pow[b] + y.pow[b]]]

LinScale(c, x) ==
    [unit |-> c * x.unit, pow |-> [b \in Bases |-> c * x.pow[b]]]

\* |b|^(2H) for a base b >= 0 and H = hurst/HurstDen in (0,1):
\* 0^(2H) = 0, 1^(2H) = 1, b^(2H) = b when H = 1/2, and a power of its own
\* otherwise.
LinPow(b, hurst) ==
    IF b = 0 THEN LinZero
    ELSE IF b = 1 THEN LinOne
    ELSE IF 2 * hurst = HurstDen THEN LinScale(b, LinOne)
    ELSE [unit |-> 0, pow |-> [c \in Bases |-> IF c = b THEN 2 ELSE 0]]

\* A half of a form all of whose coefficients are even.
LinHalf(x) ==
    [unit |-> x.unit \div 2, pow |-> [b \in Bases |-> x.pow[b] \div 2]]

\* A plausible slip: the middle term taken once instead of twice.
gamma_single_middle(k, hurst) ==
    LinHalf(LinAdd(LinAdd(LinPow(Abs(k + 1), hurst),
                          LinScale(-1, LinPow(Abs(k), hurst))),
                   LinPow(Abs(k - 1), hurst)))

\* gamma(k) = 1/2 (|k+1|^(2H) - 2|k|^(2H) + |k-1|^(2H))
gamma(k, hurst) ==
    LinHalf(LinAdd(LinAdd(LinPow(Abs(k + 1), hurst),
                          LinScale(-2, LinPow(Abs(k), hurst))),
                   LinPow(Abs(k - 1), hurst)))

\* A plausible slip: the middle entry of the row left at 0.
circulant_row_zero_middle(n, hurst) ==
    <<gamma(0, hurst)>>
        \o [k \in 1 .. (n - 1) |-> gamma(k, hurst)]
        \o <<LinZero>>
        \o [k \in 1 .. (n - 1) |-> gamma(n - k, hurst)]

\* Davies-Harte: row 0 of the circulant,
\* [gamma(0), gamma(1), ..., gamma(n-1), gamma(n), gamma(n-1), ..., gamma(1)].
circulant_row(n, hurst) ==
    <<gamma(0, hurst)>>
        \o [k \in 1 .. (n - 1) |-> gamma(k, hurst)]
        \o <<gamma(n, hurst)>>
        \o [k \in 1 .. (n - 1) |-> gamma(n - k, hurst)]

\* The rows of every valid (n, hurst), built once.
circulant_rows ==
    [n \in 1 .. MaxN, hurst \in 1 .. (HurstDen - 1) |-> circulant_row(n, hurst)]

-----------------------------------------------------------------------------
(* The parent class.                                                       *)

\* construct: hurst outside (0,1) and t <= 0 are InvalidParameter.
FractionalGaussianNoise__init__(t, hurst) ==
    IF t <= 0 \/ hurst <= 0 \/ hurst >= HurstDen
    THEN [status |-> "InvalidParameter", obj |-> {}]
    ELSE [status |-> "ok", obj |-> {[t |-> t, hurst |-> hurst]}]

\* sample_increments: n < 1 is InvalidParameter; otherwise the n increments
\* of this call's realisation.  row is the circulant row the spectral method
\* builds on the way.
_sample_fractional_gaussian_noise(self, n, draw) ==
    IF n < 1
    THEN [status |-> "InvalidParameter", ret |-> {}, row |-> <<>>]
    ELSE [status |-> "ok", ret |-> {draw}, row |-> circulant_rows[n, self.hurst]]

-----------------------------------------------------------------------------
(* FractionalBrownianMotion.                                               *)

\* A plausible slip: the arguments handed to the parent in the wrong order.
__init__swapped(t, hurst) == FractionalGaussianNoise__init__(hurst, t)

\* super(FractionalBrownianMotion, self).__init__(t, hurst)
__init__(t, hurst) == FractionalGaussianNoise__init__(t, hurst)

\* A plausible slip: an exclusive running sum (each entry misses its own term).
cumsum_exclusive(s) ==
    LET RECURSIVE acc(_)
        acc(k) == IF k = 0 THEN 0 ELSE acc(k - 1) + s[k]
    IN [k \in 1 .. Len(s) |-> acc(k - 1)]

\* ndarray.cumsum(): out[k] = out[k-1] + s[k], left to right.
cumsum(s) ==
    LET RECURSIVE run(_)
        run(k) == IF k = 0 THEN <<>>
                  ELSE LET c == run(k - 1)
                       IN Append(c, (IF k = 1 THEN 0 ELSE c[k - 1]) + s[k])
    IN run(Len(s))

\* A plausible slip: the value put behind the last element (np.append).
insert_at_end(arr, idx, val) == Append(arr, val)

\* np.insert(arr, [idx], val): val placed before 0-based position idx.
insert(arr, idx, val) ==
    SubSeq(arr, 1, idx) \o <<val>> \o SubSeq(arr, idx + 1, Len(arr))

\* A plausible slip: fbm[0] = 0 instead of an insertion.
_sample_fbm_overwrite(self, n, zero, draw) ==
    LET fgn == _sample_fractional_gaussian_noise(self, n, draw) IN
    IF fgn.status # "ok"
    THEN [status |-> fgn.status, ret |-> {}, fgn |-> fgn]
    ELSE LET fbm == cumsum(CHOOSE s \in fgn.ret : TRUE)
         IN [status |-> "ok",
             ret |-> {IF zero THEN [fbm EXCEPT ![1] = 0] ELSE fbm},
             fgn |-> fgn]

\* A plausible slip: a failed increment call taken for an empty sequence.
_sample_fbm_swallow(self, n, zero, draw) ==
    LET fgn == _sample_fractional_gaussian_noise(self, n, draw)
        inc == IF fgn.status = "ok" THEN CHOOSE s \in fgn.ret : TRUE ELSE <<>>
        fbm == cumsum(inc)
    IN [status |-> "ok",
        ret |-> {IF zero THEN insert(fbm, 0, 0) ELSE fbm},
        fgn |-> fgn]

\* A plausible slip: the path scaled by the interval length.
_sample_fbm_scaled(self, n, zero, draw) ==
    LET fgn == _sample_fractional_gaussian_noise(self, n, draw) IN
    IF fgn.status # "ok"
    THEN [status |-> fgn.status, ret |-> {}, fgn |-> fgn]
    ELSE LET c == cumsum(CHOOSE s \in fgn.ret : TRUE)
             fbm == [k \in 1 .. Len(c) |-> self.t * c[k]]
         IN [status |-> "ok",
             ret |-> {IF zero THEN insert(fbm, 0, 0) ELSE fbm},
             fgn |-> fgn]

\* fgn = self._sample_fractional_gaussian_noise(n); fbm = fgn.cumsum();
\* if zero: fbm = np.insert(fbm, [0], 0); return fbm.
\* An exception of the increment call propagates: nothing is returned.
_sample_fractional_brownian_motion(self, n, zero, draw) ==
    LET fgn == _sample_fractional_gaussian_noise(self, n, draw) IN
    IF fgn.status # "ok"
    THEN [status |-> fgn.status, ret |-> {}, fgn |-> fgn]
    ELSE LET fbm == cumsum(CHOOSE s \in fgn.ret : TRUE)
         IN [status |-> "ok",
             ret |-> {IF zero THEN insert(fbm, 0, 0) ELSE fbm},
             fgn |-> fgn]

\* return self._sample_fractional_brownian_motion(n, zero)
sample(self, n, zero, draw) ==
    _sample_fractional_brownian_motion(self, n, zero, draw)

-----------------------------------------------------------------------------
(* The state machine.                                                      *)

NoObject == [status |-> "none", args |-> [t |-> 0, hurst |-> 0], obj |-> {}]

Self(i) == CHOOSE o \in objs[i].obj : TRUE

CallRecord(self, n, zero, draw, r) ==
    [t |-> self.t, hurst |-> self.hurst, n |-> n, zero |-> zero, draw |-> draw,
     fgn |-> r.fgn, status |-> r.status, ret |-> r.ret]

Init ==
    /\ objs = [i \in Slots |-> NoObject]
    /\ last = [i \in Slots |-> <<>>]

\* objs[i] = FractionalBrownianMotion(t, hurst)
Construct(i, t, hurst) ==
    /\ objs[i].status = "none"
    /\ LET r == __init__(t, hurst)
       IN objs' = [objs EXCEPT ![i] = [status |-> r.status,
                                       args |-> [t |-> t, hurst |-> hurst],
                                       obj |-> r.obj]]
    /\ UNCHANGED last

\* A plausible slip: the increments of the previous call with the same n kept
\* and used again.
SampleCached(i, n, zero, draw) ==
    /\ objs[i].obj # {}
    /\ LET used == IF last[i] # <<>> /\ last[i][1].n = n
                   THEN last[i][1].draw ELSE draw
           r == sample(Self(i), n, zero, used)
       IN last' = [last EXCEPT ![i] = <<CallRecord(Self(i), n, zero, draw, r)>>]
    /\ UNCHANGED objs

\* objs[i].sample(n, zero), the random source delivering draw
Sample(i, n, zero, draw) ==
    /\ objs[i].obj # {}
    /\ LET r == sample(Self(i), n, zero, draw)
       IN last' = [last EXCEPT ![i] = <<CallRecord(Self(i), n, zero, draw, r)>>]
    /\ UNCHANGED objs

DrawsFor(n) == IF n < 1 THEN {<<>>} ELSE [1 .. n -> Draws]

Next ==
    \/ \E i \in Slots, t \in TArgs, hurst \in HurstArgs : Construct(i, t, hurst)
    \/ \E i \in Slots, n \in NArgs, zero \in BOOLEAN :
           \E draw \in DrawsFor(n) : Sample(i, n, zero, draw)

Spec == Init /\ [][Next]_vars

-----------------------------------------------------------------------------
(* Properties.                                                             *)

Called(i) == last[i] # <<>>

Call(i) == last[i][1]

\* The one sequence a successful call returned.
Path(i) == CHOOSE p \in Call(i).ret : TRUE

\* The increments the call drew.
Inc(i) == CHOOSE s \in Call(i).fgn.ret : TRUE

Returned(i) == Called(i) /\ Call(i).status = "ok" /\ Call(i).ret # {}

RECURSIVE SumTo(_, _)
SumTo(s, k) == IF k = 0 THEN 0 ELSE s[k] + SumTo(s, k - 1)

\* C1: on a valid process (t > 0, 0 < hurst < 1) a call sample(n, zero) with
\* n >= 1 returns exactly one sequence, of length n + 1 when zero is true and
\* of length n when zero is false.
C1_PathLength ==
    \A i \in Slots :
        (Called(i) /\ Call(i).n >= 1 /\ Call(i).t > 0
            /\ 0 < Call(i).hurst /\ Call(i).hurst < HurstDen)
        => /\ Call(i).status = "ok"
           /\ Cardinality(Call(i).ret) = 1
           /\ Len(Path(i)) = IF Call(i).zero THEN Call(i).n + 1 ELSE Call(i).n

C1_Witness ==
    \E i, j \in Slots :
        /\ Returned(i) /\ Call(i).zero /\ Call(i).n = 2 /\ Len(Path(i)) = 3
        /\ Returned(j) /\ ~Call(j).zero /\ Call(j).n = 2 /\ Len(Path(j)) = 2

\* C2: with zero = false the returned path is the cumulative sum of the
\* increments drawn in that call: path[k] = inc[1] + ... + inc[k] for every
\* position k, every consecutive difference path[k] - path[k-1] is inc[k],
\* and the last element is the sum of all n increments.
C2_CumulativeSum ==
    \A i \in Slots :
        (Returned(i) /\ ~Call(i).zero)
        => /\ Len(Path(i)) = Len(Inc(i))
           /\ \A k \in 1 .. Len(Inc(i)) :
                  /\ Path(i)[k] = SumTo(Inc(i), k)
                  /\ k > 1 => Path(i)[k] - Path(i)[k - 1] = Inc(i)[k]
           /\ Path(i)[Call(i).n] = SumTo(Inc(i), Call(i).n)

C2_Witness ==
    \E i \in Slots :
        /\ Returned(i) /\ ~Call(i).zero /\ Call(i).n = 2
        /\ Inc(i) = <<1, 1>> /\ Path(i) = <<1, 2>>

\* C3: the zero flag only prepends one element: of two calls that drew the
\* same increments, one with zero = true and one with zero = false, the first
\* returns 0 at index 0 followed by exactly the elements the second returns;
\* and calls given the same hurst, n and draw have the same increments
\* whatever their flags.
C3_ZeroOnlyPrepends ==
    \A i, j \in Slots :
        /\ (Returned(i) /\ Returned(j) /\ Call(i).zero /\ ~Call(j).zero
                /\ Inc(i) = Inc(j))
           => /\ Path(i)[1] = 0
              /\ Len(Path(i)) = Len(Path(j)) + 1
              /\ \A k \in 1 .. Len(Path(j)) : Path(i)[k + 1] = Path(j)[k]
        /\ (Returned(i) /\ Returned(j) /\ Call(i).hurst = Call(j).hurst
                /\ Call(i).n = Call(j).n /\ Call(i).draw = Call(j).draw)
           => Inc(i) = Inc(j)

C3_Witness ==
    \E i, j \in Slots :
        /\ Returned(i) /\ Returned(j) /\ Call(i).zero /\ ~Call(j).zero
        /\ Inc(i) = Inc(j) /\ Call(i).n = 2
        /\ Path(i) = <<0>> \o Path(j)

\* C4: construction fails with InvalidParameter, leaving no process object,
\* exactly when hurst is not strictly inside (0, 1) or t <= 0 (hurst = 0, 1,
\* 3/2 and t = 0, -1 among them); for every t > 0 with 0 < hurst < 1 it
\* succeeds and the object holds the t and hurst it was given.
C4_ConstructionValidates ==
    \A i \in Slots :
        objs[i].status # "none"
        => IF objs[i].args.t > 0 /\ 0 < objs[i].args.hurst
                /\ objs[i].args.hurst < HurstDen
           THEN /\ objs[i].status = "ok"
                /\ objs[i].obj = {[t |-> objs[i].args.t,
                                   hurst |-> objs[i].args.hurst]}
           ELSE /\ objs[i].status = "InvalidParameter"
                /\ objs[i].obj = {}

C4_Witness ==
    \E i, j \in Slots :
        /\ objs[i].status = "InvalidParameter" /\ objs[i].obj = {}
        /\ objs[i].args = [t |-> 2, hurst |-> HurstDen]
        /\ objs[j].status = "ok"
        /\ objs[j].obj = {[t |-> 2, hurst |-> 1]}

\* C5: on a constructed process, a call with n < 1 fails with
\* InvalidParameter for either value of zero, in the increment sampler and in
\* sample alike, and returns no sequence at all (not even <<0>>).
C5_NonPositiveCountFails ==
    \A i \in Slots :
        (Called(i) /\ Call(i).n < 1)
        => /\ Call(i).status = "InvalidParameter"
           /\ Call(i).ret = {}
           /\ Call(i).fgn.status = "InvalidParameter"
           /\ Call(i).fgn.ret = {}

C5_Witness ==
    \E i, j \in Slots :
        /\ Called(i) /\ Call(i).n = 0 /\ Call(i).zero
        /\ Call(i).status = "InvalidParameter"
        /\ Called(j) /\ Call(j).n = -1 /\ ~Call(j).zero
        /\ Call(j).status = "InvalidParameter"

C7_HalfHurstKernel ==
    \A i \in Slots :
        (Returned(i) /\ 2 * Call(i).hurst = HurstDen)
        => /\ gamma(0, Call(i).hurst) = LinOne
           /\ \A k \in 1 .. MaxN : gamma(k, Call(i).hurst) = LinZero
           /\ Call(i).fgn.row[1] = LinOne
           /\ \A k \in 1 .. Call(i).n : Call(i).fgn.row[k + 1] = LinZero
           /\ \A a, b \in 1 .. Call(i).n :
                  gamma(Abs(a - b), Call(i).hurst)
                      = IF a = b THEN LinOne ELSE LinZero

C7_Witness ==
    \E i \in Slots :
        /\ Returned(i) /\ 2 * Call(i).hurst = HurstDen /\ Call(i).n = 2
        /\ Call(i).fgn.row = <<LinOne, LinZero, LinZero, LinZero>>

\* C9: sampling leaves the process as constructed and keeps no memory: after
\* any calls the object's t and hurst are the constructed values (and are the
\* ones the call read), and two calls with the same t, hurst, n, zero and
\* draw have the same result whatever calls came before them.
C9_SamplingIsStateless ==
    /\ \A i \in Slots :
           Called(i)
           => /\ objs[i].obj = {[t |-> objs[i].args.t,
                                 hurst |-> objs[i].args.hurst]}
              /\ Call(i).t = objs[i].args.t
              /\ Call(i).hurst = objs[i].args.hurst
    /\ \A i, j \in Slots :
           (Called(i) /\ Called(j) /\ Call(i).t = Call(j).t
               /\ Call(i).hurst = Call(j).hurst /\ Call(i).n = Call(j).n
               /\ Call(i).zero = Call(j).zero /\ Call(i).draw = Call(j).draw)
           => /\ Call(i).status = Call(j).status
              /\ Call(i).ret = Call(j).ret
              /\ Call(i).fgn = Call(j).fgn

C9_Witness ==
    \E i, j \in Slots :
        /\ i # j /\ Returned(i) /\ Returned(j)
        /\ objs[i].obj = objs[j].obj
        /\ Call(i).n = 1 /\ Call(j).n = 1 /\ Call(i).zero = Call(j).zero
        /\ Call(i).draw = <<-1>> /\ Call(j).draw = <<-1>>
        /\ Path(i) = Path(j)

====
